---- MODULE Spec2Model ----
(***************************************************************************)
(* Model of the mathematicsScore repository: the five-stage batch pipeline *)
(* driven by main.py, the transformation component, and the feature        *)
(* encoding of the two Flask prediction services (api/index.py and         *)
(* api/predict.py).                                                        *)
(***************************************************************************)
EXTENDS Integers, Sequences, FiniteSets, TLC

(***************************************************************************)
(* Part 1: the run of main.py                                              *)
(***************************************************************************)

VARIABLES
    pc,             \* position of the main script
    stage,          \* number of the stage block reached (0 before the first)
    nwritten,       \* artifact files the running stage has written so far
    started,        \* stage names in the order their "started" line was logged
    returned,       \* stages whose pipeline main() returned normally
    failed,         \* stages whose component raised an exception
    log,            \* records written through the logger by the main thread
    raisedBy,       \* stage whose exception ended the script, or "none"
    artifacts,      \* artifact files present on disk
    metrics_thread, \* the daemon thread of main.py
    lastRead        \* what the metrics server saw at its latest request

pipeVars == <<pc, stage, nwritten, started, returned, failed, log, raisedBy,
              artifacts, metrics_thread, lastRead>>

\* The five try-blocks of main.py, in the order they appear in the script.
StageSeq_ImportOrder ==
    <<"validation", "ingestion", "transformation", "training", "evaluation">>

StageSeq ==
    <<"ingestion", "validation", "transformation", "training", "evaluation">>

NumStages == Len(StageSeq)

\* Pipeline classes that swallow what their component raised.
Reraises_Never(s) == FALSE

\* Whether the pipeline class of a stage re-raises what its component raised.
\* DataValidationPipeline.main logs the error and falls off the end instead.
Reraises(s) == s # "validation"

\* Artifact files each stage writes, in the order the component writes them.
StageFiles(s) ==
    CASE s = "ingestion"      -> <<"data_ingestion/train_data.csv",
                                   "data_ingestion/test_data.csv">>
      [] s = "validation"     -> <<"data_validation/status.txt">>
      [] s = "transformation" -> <<"data_transformation/train.csv",
                                   "data_transformation/test.csv",
                                   "data_transformation/preprocessor.pkl">>
      [] s = "training"       -> <<"model_trainer/model.pkl",
                                   "model_trainer/training_info.pkl">>
      [] s = "evaluation"     -> <<"model_evaluation/evaluation_metrics.pkl",
                                   "model_evaluation/evaluation_metrics.json">>

\* The point of the script at which the daemon thread running the metrics
\* server is started: main.py 21-23, before the first stage block.
ThreadStartPoint_Never == "never"

ThreadStartPoint == "boot"

PipeInit ==
    /\ pc = "boot"
    /\ stage = 0
    /\ nwritten = 0
    /\ started = <<>>
    /\ returned = {}
    /\ failed = {}
    /\ log = <<>>
    /\ raisedBy = "none"
    /\ artifacts = {}
    /\ metrics_thread = "not_started"
    /\ lastRead = [during |-> "never", files |-> {}]

\* main.py 11-23: setup_logger(), then threading.Thread(target=
\* start_metrics_server) is made a daemon and started.
Boot ==
    /\ pc = "boot"
    /\ pc' = "between"
    /\ metrics_thread' = IF ThreadStartPoint = "boot" THEN "running" ELSE metrics_thread
    /\ UNCHANGED <<stage, nwritten, started, returned, failed, log, raisedBy,
                   artifacts, lastRead>>

\* A block of main.py is entered: "stage ... started" is logged, the pipeline
\* object is built and its main() is called.
StageStart ==
    /\ pc = "between"
    /\ stage < NumStages
    /\ pc' = "in_stage"
    /\ stage' = stage + 1
    /\ nwritten' = 0
    /\ started' = Append(started, StageSeq[stage + 1])
    /\ log' = Append(log, <<"info", "started", StageSeq[stage + 1]>>)
    /\ UNCHANGED <<returned, failed, raisedBy, artifacts, metrics_thread, lastRead>>

\* The component of the running stage writes its next artifact file.
StageWrite ==
    /\ pc = "in_stage"
    /\ nwritten < Len(StageFiles(StageSeq[stage]))
    /\ artifacts' = artifacts \cup {StageFiles(StageSeq[stage])[nwritten + 1]}
    /\ nwritten' = nwritten + 1
    /\ UNCHANGED <<pc, stage, started, returned, failed, log, raisedBy,
                   metrics_thread, lastRead>>

\* The component finished, the pipeline main() returned, main.py logs
\* "completed" and falls through to the next block (or to the end of the script).
StageReturn ==
    /\ pc = "in_stage"
    /\ nwritten = Len(StageFiles(StageSeq[stage]))
    /\ returned' = returned \cup {StageSeq[stage]}
    /\ log' = Append(log, <<"info", "completed", StageSeq[stage]>>)
    /\ pc' = IF stage = NumStages THEN "done" ELSE "between"
    /\ UNCHANGED <<stage, nwritten, started, failed, raisedBy, artifacts,
                   metrics_thread, lastRead>>

\* The component raises at any point of the stage.  The pipeline main() logs
\* the error; if it re-raises, main.py logs the exception and re-raises it, which
\* ends the script; otherwise main() returns normally and main.py logs
\* "completed" and goes on.
StageException ==
    /\ pc = "in_stage"
    /\ failed' = failed \cup {StageSeq[stage]}
    /\ IF Reraises(StageSeq[stage])
       THEN /\ log' = log \o << <<"error", "pipeline", StageSeq[stage]>>,
                                <<"exception", "main", StageSeq[stage]>> >>
            /\ pc' = "raised"
            /\ raisedBy' = StageSeq[stage]
            /\ returned' = returned
       ELSE /\ log' = log \o << <<"error", "pipeline", StageSeq[stage]>>,
                                <<"info", "completed", StageSeq[stage]>> >>
            /\ pc' = IF stage = NumStages THEN "done" ELSE "between"
            /\ raisedBy' = raisedBy
            /\ returned' = returned \cup {StageSeq[stage]}
    /\ UNCHANGED <<stage, nwritten, started, artifacts, metrics_thread, lastRead>>

\* The metrics server started by the daemon thread answers a request:
\* get_latest_metrics looks at the artifact directories as they are right now.
MetricsRequest ==
    /\ metrics_thread = "running"
    /\ lastRead' = [during |-> IF pc = "in_stage" THEN StageSeq[stage] ELSE "idle",
                    files  |-> artifacts]
    /\ UNCHANGED <<pc, stage, nwritten, started, returned, failed, log, raisedBy,
                   artifacts, metrics_thread>>

PipeNext ==
    \/ Boot
    \/ StageStart
    \/ StageWrite
    \/ StageReturn
    \/ StageException
    \/ MetricsRequest

(***************************************************************************)
(* Part 2: the transformation component (data_transformation.py)           *)
(***************************************************************************)

VARIABLES
    hm_pc,          \* "idle", "input" or "filled": a call of handle_missing_values
    hm_in,          \* the DataFrame passed to handle_missing_values
    hm_out,         \* the DataFrame it returned
    tpc,            \* "idle", "ingested", "transformed", "trained", "encoded"
    train_csv,      \* rows of artifacts/data_ingestion/train_data.csv
    test_csv,       \* rows of artifacts/data_ingestion/test_data.csv
    train_data,     \* transformed train table (transformed_train_path)
    test_data,      \* transformed test table (transformed_test_path)
    training_info,  \* the dictionary pickled by ModelTrainer.train
    enc_row,        \* index of the train record sent to the prediction service
    enc_out         \* what preprocess_input of api/index.py returned for it

missVars == <<hm_pc, hm_in, hm_out>>
transVars == <<tpc, train_csv, test_csv, train_data, test_data, training_info,
               enc_row, enc_out>>

\* Largest number of rows of a table in the transformation runs.
MaxRows == 2
\* Largest number of rows of a DataFrame given to handle_missing_values.
MaxMissRows == 4

\* A missing cell: NaN in a numerical column, None/NaN in an object column.
NaN == 0 - 1
None == "<missing>"

\* Columns of the ingested CSV files, in file order, and their cell values.
CsvColumns == <<"race_ethnicity", "math_score", "reading_score">>
TextColumns == {"race_ethnicity"}
Categories == {"group A", "group B", "group C"}
\* Scores are even, so that the mean of two of them is again an integer.
Scores == {40, 60}
CsvScores == {40}
CellValues(c) ==
    CASE c = "race_ethnicity" -> Categories \cup {None}
      [] c = "reading_score"  -> CsvScores \cup {NaN}
      [] c = "math_score"     -> {60}

\* Python's order of the strings the model uses (sorted() and pandas' sort of
\* the categories both compare code points).
SortedStrings ==
    <<"gender", "gender_male", "group A", "group B", "group C", "lunch_standard",
      "math_score", "race_ethnicity", "race_ethnicity_group A",
      "race_ethnicity_group B", "race_ethnicity_group C", "reading_score",
      "test_preparation_course_none", "writing_score">>

Range(q) == {q[i] : i \in 1..Len(q)}

Rank(x) == CHOOSE i \in 1..Len(SortedStrings) : SortedStrings[i] = x

\* sorted(S) for a set of strings S.
sorted(S) == SelectSeq(SortedStrings, LAMBDA x : x \in S)

\* pd.read_csv: a column whose cells are all empty, and a column of numbers,
\* is numerical; a column holding text is of dtype object.
read_csv(rows) ==
    LET isText(c) == c \in TextColumns /\ \E i \in 1..Len(rows) : rows[i][c] # None
    IN [cols  |-> CsvColumns,
        dtype |-> [c \in Range(CsvColumns) |-> IF isText(c) THEN "object" ELSE "float64"],
        rows  |-> [i \in 1..Len(rows) |->
                     [c \in Range(CsvColumns) |->
                        IF c \in TextColumns /\ ~isText(c) THEN NaN ELSE rows[i][c]]]]

\* The non-missing cells of column c, in row order.
Present(df, c) ==
    LET miss == IF df.dtype[c] = "object" THEN None ELSE NaN
        idx  == SelectSeq([i \in 1..Len(df.rows) |-> i], LAMBDA i : df.rows[i][c] # miss)
    IN [k \in 1..Len(idx) |-> df.rows[idx[k]][c]]

\* The k-th smallest element of a sequence of numbers.
KthSmallest(q, k) ==
    CHOOSE v \in Range(q) :
        /\ Cardinality({i \in 1..Len(q) : q[i] < v}) < k
        /\ k <= Cardinality({i \in 1..Len(q) : q[i] <= v})

\* Series.median(): NaN for no values, the middle value, or the mean of the
\* two middle values.
median_Min(q) == IF Len(q) = 0 THEN NaN ELSE KthSmallest(q, 1)

median(q) ==
    IF Len(q) = 0 THEN NaN
    ELSE IF Len(q) % 2 = 1 THEN KthSmallest(q, (Len(q) + 1) \div 2)
    ELSE (KthSmallest(q, Len(q) \div 2) + KthSmallest(q, Len(q) \div 2 + 1)) \div 2

\* Series.mode(): the most frequent values, sorted; empty when there is none.
mode(q) ==
    LET count(v) == Cardinality({i \in 1..Len(q) : q[i] = v})
    IN sorted({v \in Range(q) : \A w \in Range(q) : count(w) <= count(v)})

\* DataTransformation.handle_missing_values
handle_missing_values(df) ==
    LET fill(c) ==
          IF df.dtype[c] \in {"int64", "float64"}
          THEN [miss |-> NaN, with |-> median(Present(df, c))]
          ELSE IF mode(Present(df, c)) # <<>>
               THEN [miss |-> None, with |-> mode(Present(df, c))[1]]
               ELSE [miss |-> None, with |-> None]
    IN [df EXCEPT !.rows =
          [i \in 1..Len(df.rows) |->
             [c \in Range(df.cols) |->
                IF df.rows[i][c] = fill(c).miss THEN fill(c).with ELSE df.rows[i][c]]]]

\* pd.get_dummies(data, drop_first=True): every object column is replaced by
\* one indicator column per category it holds, the categories sorted and the
\* first one dropped; the other columns come first, unchanged.
FirstDropped(cats) == SubSeq(cats, 2, Len(cats))

create_dummy_variables(df) ==
    LET kept     == SelectSeq(df.cols, LAMBDA c : df.dtype[c] # "object")
        objs     == SelectSeq(df.cols, LAMBDA c : df.dtype[c] = "object")
        cats(c)  == FirstDropped(sorted(Range(Present(df, c))))
        dummy(c) == [k \in 1..Len(cats(c)) |-> [col |-> c \o "_" \o cats(c)[k],
                                                  src |-> c, val |-> cats(c)[k]]]
        Flat[k \in 0..Len(objs)] == IF k = 0 THEN <<>> ELSE Flat[k - 1] \o dummy(objs[k])
        dums     == Flat[Len(objs)]
        names    == kept \o [k \in 1..Len(dums) |-> dums[k].col]
    IN [cols |-> names,
        rows |-> [i \in 1..Len(df.rows) |->
                    [n \in Range(names) |->
                       IF n \in Range(kept) THEN df.rows[i][n]
                       ELSE LET d == CHOOSE d \in Range(dums) : d.col = n
                            IN IF df.rows[i][d.src] = d.val THEN 1 ELSE 0]]]

\* data[col] = 0 for every column of `other` that `data` lacks.
AddMissingColumns(data, other) ==
    LET missing == sorted(Range(other.cols) \ Range(data.cols))
    IN [cols |-> data.cols \o missing,
        rows |-> [i \in 1..Len(data.rows) |->
                    [n \in Range(data.cols) \cup Range(missing) |->
                       IF n \in Range(data.cols) THEN data.rows[i][n] ELSE 0]]]

\* data[sorted(data.columns)]
Reorder_Unsorted(data) == data

Reorder(data) == [data EXCEPT !.cols = sorted(Range(data.cols))]

\* DataTransformation.transform, lines 47-83: both tables are read, imputed
\* and encoded on their own, then aligned on the union of their columns.
transform(trainRows, testRows) ==
    LET tr == create_dummy_variables(handle_missing_values(read_csv(trainRows)))
        te == create_dummy_variables(handle_missing_values(read_csv(testRows)))
    IN [train_data |-> Reorder(AddMissingColumns(tr, te)),
        test_data  |-> Reorder(AddMissingColumns(te, tr))]

\* ModelTrainer.train, lines 30-41 and 75-83: the features are the columns of
\* the transformed train table without the target column.
target_column == "math_score"

train(data) ==
    [kind |-> "dict", has_feature_columns |-> TRUE,
     target_column   |-> target_column,
     feature_columns |-> SelectSeq(data.cols, LAMBDA c : c # target_column)]

(***************************************************************************)
(* Part 3: the feature encoding of the prediction services                 *)
(***************************************************************************)

VARIABLES
    epc,            \* "idle", "input" or "encoded": one encoding of a request body
    e_data,         \* the parsed JSON request body
    e_info,         \* the training_info handed to api/index.py preprocess_input
    e_index,        \* result of api/index.py preprocess_input
    e_predict       \* result of api/predict.py preprocess_input

encVars == <<epc, e_data, e_info, e_index, e_predict>>

\* JSON values of a score field, and Python's float() of them.
Num(x) == [kind |-> "num", v |-> x]
NumStr(x) == [kind |-> "numstr", v |-> x]
Text == [kind |-> "text", v |-> 0]
Null == [kind |-> "null", v |-> 0]

\* float(x) raises for None and for text that is not a number.
float_raises(x) == x.kind \in {"text", "null"}
float(x) == x.v

ScoreFields == {"reading_score", "writing_score"}

\* data.get(key) on a JSON object: the value, or None for an absent key.
get(data, key) == IF key \in DOMAIN data.obj THEN data.obj[key] ELSE None

\* What api/index.py preprocess_input appends for one feature column:
\* the raw field it looks at and the value that sets the indicator to 1.
KnownIndicator ==
    [feature |->
       <<"gender_male", "lunch_standard",
         "parental_level_of_education_bachelor's degree",
         "parental_level_of_education_high school",
         "parental_level_of_education_master's degree",
         "parental_level_of_education_some college",
         "parental_level_of_education_some high school",
         "race_ethnicity_group B", "race_ethnicity_group C",
         "race_ethnicity_group D", "race_ethnicity_group E",
         "test_preparation_course_none">>,
     field |->
       <<"gender", "lunch",
         "parental_level_of_education", "parental_level_of_education",
         "parental_level_of_education", "parental_level_of_education",
         "parental_level_of_education",
         "race_ethnicity", "race_ethnicity", "race_ethnicity", "race_ethnicity",
         "test_preparation_course">>,
     value |->
       <<"male", "standard", "bachelor's degree", "high school", "master's degree",
         "some college", "some high school", "group B", "group C", "group D",
         "group E", "none">>]

IsIndicator(f) == f \in Range(KnownIndicator.feature)
IndicatorOf(f) == CHOOSE k \in 1..Len(KnownIndicator.feature) : KnownIndicator.feature[k] = f

\* The 14 feature columns of a model trained on the full data set, in the
\* sorted order transform() leaves them in.
StandardFeatures ==
    <<"gender_male", "lunch_standard",
      "parental_level_of_education_bachelor's degree",
      "parental_level_of_education_high school",
      "parental_level_of_education_master's degree",
      "parental_level_of_education_some college",
      "parental_level_of_education_some high school",
      "race_ethnicity_group B", "race_ethnicity_group C",
      "race_ethnicity_group D", "race_ethnicity_group E",
      "reading_score", "test_preparation_course_none", "writing_score">>

\* The loop of api/index.py preprocess_input, lines 66-104, over the feature
\* columns fc.  Any exception inside the loop is caught by the caller's
\* except clause and None is returned.
feature_vector(data, fc) ==
    LET raises(f) ==
          \/ (IsIndicator(f) \/ f \in ScoreFields) /\ data.kind # "object"
          \/ /\ f \in ScoreFields
             /\ data.kind = "object"
             /\ f \in DOMAIN data.obj
             /\ float_raises(data.obj[f])
        entry(f) ==
          IF IsIndicator(f)
          THEN IF get(data, KnownIndicator.field[IndicatorOf(f)])
                    = KnownIndicator.value[IndicatorOf(f)] THEN 1 ELSE 0
          ELSE IF f \in ScoreFields
          THEN IF f \in DOMAIN data.obj THEN float(data.obj[f]) ELSE 0
          ELSE 0
    IN IF \E i \in 1..Len(fc) : raises(fc[i]) THEN [ok |-> FALSE, row |-> <<>>]
       ELSE [ok |-> TRUE, row |-> [i \in 1..Len(fc) |-> entry(fc[i])]]

\* api/index.py preprocess_input, lines 55-108.
index_preprocess_input_FixedOrder(data, info) ==
    IF info.kind = "None" THEN [ok |-> FALSE, row |-> <<>>]
    ELSE IF ~info.has_feature_columns THEN [ok |-> FALSE, row |-> <<>>]
    ELSE feature_vector(data, StandardFeatures)

index_preprocess_input(data, info) ==
    IF info.kind = "None" THEN [ok |-> FALSE, row |-> <<>>]
    ELSE IF ~info.has_feature_columns THEN [ok |-> FALSE, row |-> <<>>]
    ELSE feature_vector(data, info.feature_columns)

\* api/predict.py preprocess_input, lines 32-58: the body is looked up under
\* the names of the encoded features themselves, in a fixed order.
expected_features ==
    <<"writing_score", "reading_score", "gender_male",
      "race_ethnicity_group_B", "race_ethnicity_group_C",
      "race_ethnicity_group_D", "race_ethnicity_group_E",
      "parental_level_of_education_bachelor_degree",
      "parental_level_of_education_high_school",
      "parental_level_of_education_master_degree",
      "parental_level_of_education_some_college",
      "parental_level_of_education_some_high_school",
      "lunch_standard", "test_preparation_course_none">>

predict_preprocess_input(data) ==
    [i \in 1..Len(expected_features) |->
       IF data.kind = "object" /\ expected_features[i] \in DOMAIN data.obj
       THEN data.obj[expected_features[i]]
       ELSE Num(0)]

(***************************************************************************)
(* Actions of the transformation component and of the encoders             *)
(***************************************************************************)

EmptyFrame == [cols |-> <<>>, rows |-> <<>>]
NoResult == [ok |-> FALSE, row |-> <<>>]
NoInfo == [kind |-> "None", has_feature_columns |-> FALSE, feature_columns |-> <<>>]

MissIdle == hm_pc = "idle" /\ hm_in = EmptyFrame /\ hm_out = EmptyFrame
TransIdle ==
    /\ tpc = "idle" /\ train_csv = <<>> /\ test_csv = <<>>
    /\ train_data = EmptyFrame /\ test_data = EmptyFrame
    /\ training_info = NoInfo /\ enc_row = 0 /\ enc_out = NoResult
EncIdle ==
    /\ epc = "idle" /\ e_data = [kind |-> "array", obj |-> <<>>] /\ e_info = NoInfo
    /\ e_index = NoResult /\ e_predict = <<>>
PipeIdle ==
    /\ pc = "idle" /\ stage = 0 /\ nwritten = 0 /\ started = <<>> /\ returned = {}
    /\ failed = {} /\ log = <<>> /\ raisedBy = "none" /\ artifacts = {}
    /\ metrics_thread = "not_started" /\ lastRead = [during |-> "never", files |-> {}]

\* The DataFrames handle_missing_values is called with: an object column and
\* a numerical column, any cell of which may be missing.
MissColumns == <<"race_ethnicity", "reading_score">>

MissFrames ==
    {[cols  |-> MissColumns,
      dtype |-> [c \in Range(MissColumns) |->
                   IF c \in TextColumns THEN "object"
                   ELSE IF \E i \in 1..Len(r) : r[i][c] = NaN THEN "float64" ELSE "int64"],
      rows  |-> r] :
        r \in UNION {[1..n -> {[race_ethnicity |-> x, reading_score |-> y] :
                                  x \in CellValues("race_ethnicity"),
                                  y \in Scores \cup {NaN}}]
                       : n \in 1..MaxMissRows}}

MissInit ==
    /\ hm_pc = "input"
    /\ hm_in \in MissFrames
    /\ hm_out = EmptyFrame

HandleMissing ==
    /\ hm_pc = "input"
    /\ hm_out' = handle_missing_values(hm_in)
    /\ hm_pc' = "filled"
    /\ UNCHANGED hm_in

\* The ingested CSV files: 1..MaxRows rows each.
CsvRow ==
    {[race_ethnicity |-> x, math_score |-> m, reading_score |-> y] :
        x \in CellValues("race_ethnicity"),
        m \in CellValues("math_score"),
        y \in CellValues("reading_score")}

CsvTables == UNION {[1..n -> CsvRow] : n \in 1..MaxRows}

\* The test file is drawn with every reading_score present.
TestTables == {t \in CsvTables : \A i \in 1..Len(t) : t[i].reading_score # NaN}

TransInit ==
    /\ tpc = "ingested"
    /\ train_csv \in CsvTables
    /\ test_csv \in TestTables
    /\ train_data = EmptyFrame /\ test_data = EmptyFrame
    /\ training_info = NoInfo /\ enc_row = 0 /\ enc_out = NoResult

\* DataTransformation.transform
Transform ==
    /\ tpc = "ingested"
    /\ LET result == transform(train_csv, test_csv)
       IN /\ train_data' = result.train_data
          /\ test_data' = result.test_data
    /\ tpc' = "transformed"
    /\ UNCHANGED <<train_csv, test_csv, training_info, enc_row, enc_out>>

\* ElasticNet.fit refuses a table that holds NaN.
HasNaN(data) == \E i \in 1..Len(data.rows) : \E c \in Range(data.cols) : data.rows[i][c] = NaN

\* ModelTrainer.train: fits the model and pickles training_info; an exception
\* of fit is logged and re-raised, and nothing is written.
Train ==
    /\ tpc = "transformed"
    /\ IF HasNaN(train_data)
       THEN tpc' = "train_failed" /\ training_info' = training_info
       ELSE tpc' = "trained" /\ training_info' = train(train_data)
    /\ UNCHANGED <<train_csv, test_csv, train_data, test_data, enc_row, enc_out>>

\* The request body that carries the raw fields of an ingested record: a
\* missing cell is an absent key.
BodyOf(row) ==
    LET keys == {c \in {"race_ethnicity"} : row[c] # None}
                  \cup {c \in {"reading_score"} : row[c] # NaN}
    IN [kind |-> "object",
        obj  |-> [c \in keys |-> IF c \in TextColumns THEN row[c] ELSE Num(row[c])]]

\* A record of the training table is sent to api/index.py, which encodes it
\* with the training_info of that training run.
Encode ==
    /\ tpc = "trained"
    /\ \E i \in 1..Len(train_csv) :
         /\ enc_row' = i
         /\ enc_out' = index_preprocess_input(BodyOf(train_csv[i]), training_info)
    /\ tpc' = "encoded"
    /\ UNCHANGED <<train_csv, test_csv, train_data, test_data, training_info>>

\* Request bodies and training_info values given to the two encoders.
Dict(fc) == [kind |-> "dict", has_feature_columns |-> TRUE, feature_columns |-> fc]

Infos ==
    {NoInfo,
     [kind |-> "dict", has_feature_columns |-> FALSE, feature_columns |-> <<>>],
     Dict(StandardFeatures),
     Dict(<<"gender_male", "parental_level_of_education_associate's degree",
            "writing_score", "race_ethnicity_group B">>),
     Dict(<<"age", "gender_female">>),
     Dict(<<>>)}

TextFields == {"gender", "race_ethnicity", "parental_level_of_education", "lunch",
               "test_preparation_course"}

RawFields == TextFields \cup ScoreFields

TextValues(k) ==
    CASE k = "gender" -> {"male", "female"}
      [] k = "race_ethnicity" -> {"group A", "group B"}
      [] k = "parental_level_of_education" -> {"some college"}
      [] k = "lunch" -> {"standard", "free/reduced"}
      [] k = "test_preparation_course" -> {"none"}

ScoreValues(k) ==
    CASE k = "reading_score" -> {Num(40), NumStr(60), Text, Null}
      [] k = "writing_score" -> {Num(60)}

\* Every JSON object over the raw fields (any of them may be absent), and a
\* JSON array.
Objects(values) ==
    UNION {{f \in [K -> UNION {values[k] : k \in DOMAIN values}] : \A k \in K : f[k] \in values[k]}
              : K \in SUBSET DOMAIN values}

Bodies ==
    {[kind |-> "array", obj |-> <<>>]} \cup
    {[kind |-> "object", obj |-> t @@ n] :
        t \in Objects([k \in TextFields |-> TextValues(k)]),
        n \in Objects([k \in ScoreFields |-> ScoreValues(k)])}

EncInit ==
    /\ epc = "input"
    /\ e_data \in Bodies
    /\ e_info \in Infos
    /\ e_index = NoResult
    /\ e_predict = <<>>

IndexPreprocess ==
    /\ epc = "input"
    /\ e_index' = index_preprocess_input(e_data, e_info)
    /\ epc' = "indexed"
    /\ UNCHANGED <<e_data, e_info, e_predict>>

PredictPreprocess ==
    /\ epc = "indexed"
    /\ e_predict' = predict_preprocess_input(e_data)
    /\ epc' = "encoded"
    /\ UNCHANGED <<e_data, e_info, e_index>>

(***************************************************************************)
(* Part 4: the prediction services api/index.py and api/predict.py         *)
(***************************************************************************)

VARIABLES
    cached_model,          \* the global _model of api/index.py
    cached_training_info,  \* the global _training_info of api/index.py
    model_file,            \* artifacts/model_trainer/model.pkl on the service's disk
    info_file,             \* artifacts/model_trainer/training_info.pkl
    request,               \* the request being answered, or the last one answered
    response,              \* the response returned for it
    first_pair,            \* the first non-None pair load_model_and_info returned
    last_load,             \* the last call of load_model_and_info
    calls,                 \* what predict of api/index.py called for the last request
    p_request,             \* the last request of /api/predict of api/predict.py
    p_response,            \* the response returned for it
    p_calls,               \* what predict of api/predict.py called for it
    health_response        \* the last answer of /api/health of api/predict.py

apiVars == <<cached_model, cached_training_info, model_file, info_file, request, response,
             first_pair, last_load, calls, p_request, p_response, p_calls,
             health_response>>

\* What the services keep between requests, and what the last exchange of
\* each endpoint was.
serviceState == <<cached_model, cached_training_info, model_file, info_file, first_pair,
                  last_load>>
indexExchange == <<request, response, calls>>
predictExchange == <<p_request, p_response, p_calls>>

\* The state of a pickle file: absent, or present with content that may fail
\* to unpickle.
NoFile == [state |-> "absent", content |-> NoInfo]
NoModel == [kind |-> "None", n_features |-> 0]
NoModelFile == [state |-> "absent", content |-> NoModel]

InfoFiles ==
    {NoFile, [state |-> "corrupt", content |-> NoInfo]} \cup
    {[state |-> "valid", content |-> i] :
        i \in {Dict(StandardFeatures),
               Dict(<<"reading_score", "age">>),
               [kind |-> "dict", has_feature_columns |-> FALSE, feature_columns |-> <<>>]}}

ModelFiles ==
    {NoModelFile, [state |-> "corrupt", content |-> NoModel],
     [state |-> "valid", content |-> [kind |-> "ElasticNet", n_features |-> Len(StandardFeatures)]],
     [state |-> "valid", content |-> [kind |-> "ElasticNet", n_features |-> 2]]}

\* What request.get_json() gives: it raises for a body that is not JSON and
\* for a request without a body ("missing": BadRequest when the content type
\* is JSON, UnsupportedMediaType otherwise; "missing_legacy": a Flask before
\* 2.1 returns None for a request whose content type is not JSON), returns
\* None for JSON null, or returns the parsed value.
ApiRequests ==
    {[json |-> k, data |-> [kind |-> k, obj |-> <<>>]] :
        k \in {"invalid", "missing", "missing_legacy", "null", "empty_object",
               "empty_array", "array"}} \cup
    {[json |-> "object", data |-> [kind |-> "object", obj |-> t @@ n]] :
        t \in Objects([test_preparation_course |-> {"completed"}]),
        n \in Objects([reading_score |-> ScoreValues("reading_score")]) \ {<<>>}} \cup
    {[json |-> "object", data |-> [kind |-> "object", obj |-> [lunch |-> "standard"]]],
     [json |-> "object",
      data |-> [kind |-> "object",
                obj |-> [reading_score |-> Num(100), writing_score |-> Num(100),
                         test_preparation_course |-> "completed"]]],
     [json |-> "object",
      data |-> [kind |-> "object",
                obj |-> [reading_score |-> Num(0), writing_score |-> Num(0),
                         lunch |-> "free/reduced"]]]}

NoRequest == [json |-> "none", data |-> [kind |-> "array", obj |-> <<>>]]

\* Bodies for which get_json raises, and bodies whose value is falsy.
RaisingBodies == {"invalid", "missing"}
FalsyBodies == {"missing_legacy", "null", "empty_object", "empty_array"}

\* Values np.random.normal(0, 3) is allowed to take in the model.
Noise == {0 - 9, 0, 9}
\* Values model.predict is allowed to return in the model.
Predictions == {0 - 5, 55, 120}

Response(c, st, ks, mu, p) ==
    [code |-> c, status |-> st, keys |-> ks, model_used |-> mu, prediction |-> p,
     propagated |-> FALSE, error |-> "none"]
ErrorResponse(c, msg) ==
    [Response(c, "error", {"error", "status"}, "none", 0) EXCEPT !.error = msg]
Raised == [code |-> 0, status |-> "none", keys |-> {}, model_used |-> "none",
           prediction |-> 0, propagated |-> TRUE, error |-> "none"]
NoResponse == Response(0, "none", {}, "none", 0)

NoPair == [set |-> FALSE, model |-> NoModel, info |-> NoInfo]
NoLoad == [called |-> FALSE, later |-> FALSE, read |-> FALSE, moved |-> FALSE,
           model |-> NoModel, info |-> NoInfo]
NoCalls == [loaded |-> FALSE, predicted |-> FALSE]
NoHealth == [answered |-> FALSE, status |-> "none", model_loaded |-> FALSE]

\* The try block of load_model_and_info, lines 30-53: the value returned and
\* the globals after the call.
load_from_disk ==
    IF info_file.state = "absent"
    THEN [model |-> NoModel, info |-> NoInfo, read |-> TRUE,
          g_model |-> cached_model, g_info |-> cached_training_info]
    ELSE IF info_file.state = "corrupt"
    THEN [model |-> NoModel, info |-> NoInfo, read |-> TRUE,
          g_model |-> cached_model, g_info |-> cached_training_info]
    ELSE IF model_file.state = "valid"
    THEN [model |-> model_file.content, info |-> info_file.content, read |-> TRUE,
          g_model |-> model_file.content, g_info |-> info_file.content]
    ELSE [model |-> NoModel, info |-> NoInfo, read |-> TRUE,
          g_model |-> cached_model, g_info |-> info_file.content]

\* The loader without the check of the globals.
load_model_and_info_NoCache == load_from_disk

\* load_model_and_info, lines 24-53.
load_model_and_info ==
    IF cached_model.kind # "None" /\ cached_training_info.kind # "None"
    THEN [model |-> cached_model, info |-> cached_training_info, read |-> FALSE,
          g_model |-> cached_model, g_info |-> cached_training_info]
    ELSE load_from_disk

Min(a, b) == IF a < b THEN a ELSE b
Max(a, b) == IF a > b THEN a ELSE b

\* max(0, min(100, x)) of the fallback, line 164.
clamp_Unclamped(x) == x

clamp(x) == Max(0, Min(100, x))

\* The fallback branch of predict, lines 150-173.
fallback(data, noise) ==
    LET has(k) == k \in DOMAIN data.obj
        reading == IF has("reading_score") THEN float(data.obj["reading_score"]) ELSE 50
        writing == IF has("writing_score") THEN float(data.obj["writing_score"]) ELSE 50
        base == (reading + writing) \div 2
                  + (IF get(data, "test_preparation_course") = "completed" THEN 5 ELSE 0)
                  - (IF get(data, "lunch") = "free/reduced" THEN 3 ELSE 0)
                  + (IF get(data, "parental_level_of_education")
                          \in {"bachelor's degree", "master's degree"} THEN 4 ELSE 0)
    IN IF data.kind # "object" THEN Raised
       ELSE IF \E k \in ScoreFields : has(k) /\ float_raises(data.obj[k]) THEN Raised
       ELSE Response(200, "success",
                     {"prediction", "input_data", "timestamp", "status", "model_used", "note"},
                     "fallback_intelligent_mock", clamp(base + noise))

\* The body of the try block of predict, lines 136-200.  `p` is what
\* model.predict returns when it does not raise.
predict_body(rq, loaded, noise, p) ==
    LET processed == index_preprocess_input(rq.data, loaded.info)
    IN IF rq.json \in RaisingBodies THEN Raised
       ELSE IF rq.json \in FalsyBodies THEN ErrorResponse(400, "No input data provided")
       ELSE IF loaded.model.kind = "None" \/ loaded.info.kind = "None"
       THEN fallback(rq.data, noise)
       ELSE IF ~processed.ok THEN ErrorResponse(400, "Failed to preprocess input data")
       ELSE IF Len(processed.row) # loaded.model.n_features THEN Raised
       ELSE Response(200, "success",
                     {"prediction", "input_data", "timestamp", "status", "model_used",
                      "model_info"},
                     "trained_elasticnet", p)

\* Which of load_model_and_info and model.predict the body above calls.
index_calls(rq, loaded) ==
    LET loads == rq.json \notin RaisingBodies \cup FalsyBodies
    IN  [loaded |-> loads,
         predicted |-> /\ loads
                       /\ loaded.model.kind # "None"
                       /\ loaded.info.kind # "None"
                       /\ index_preprocess_input(rq.data, loaded.info).ok]

\* The except clause of predict, lines 202-207.
except_Propagate(r) == r

except(r) == IF r.propagated THEN ErrorResponse(500, "str(e)") ELSE r

\* A loader that hands out a model whatever the file is.
predict_load_model_Always ==
    [kind |-> "ElasticNet", n_features |-> Len(expected_features)]

\* load_model of api/predict.py, lines 19-30: no cache, None for an absent
\* file and for one that fails to unpickle.
predict_load_model ==
    IF model_file.state = "valid" THEN model_file.content ELSE NoModel

\* The body of the try block of predict of api/predict.py, lines 63-94.
\* model.predict raises for a row of the wrong length and for a cell that is
\* not a number; `accepts` says whether it takes a number written as text.
predict_predict_body(rq, model, p, accepts) ==
    LET row == predict_preprocess_input(rq.data)
    IN IF rq.json \in RaisingBodies THEN Raised
       ELSE IF rq.json \in FalsyBodies THEN ErrorResponse(400, "No input data provided")
       ELSE IF model.kind = "None" THEN ErrorResponse(500, "Model not available")
       ELSE IF Len(row) # model.n_features THEN Raised
       ELSE IF \E i \in 1..Len(row) : row[i].kind \in {"text", "null"} THEN Raised
       ELSE IF ~accepts /\ \E i \in 1..Len(row) : row[i].kind = "numstr" THEN Raised
       ELSE Response(200, "success", {"prediction", "input_data", "timestamp", "status"},
                     "none", p)

\* Which of load_model and model.predict the body above calls.
predict_calls(rq, model) ==
    LET loads == rq.json \notin RaisingBodies \cup FalsyBodies
    IN  [loaded |-> loads, predicted |-> loads /\ model.kind # "None"]

\* The except clause of predict of api/predict.py, lines 96-100.
predict_except(r) == IF r.propagated THEN ErrorResponse(500, "str(e)") ELSE r

\* health of api/predict.py, lines 103-111.
predict_health(model) ==
    [answered |-> TRUE,
     status |-> IF model.kind # "None" THEN "healthy" ELSE "unhealthy",
     model_loaded |-> model.kind # "None"]

ApiInit ==
    /\ cached_model = NoModel
    /\ cached_training_info = NoInfo
    /\ model_file \in ModelFiles
    /\ info_file \in InfoFiles
    /\ request = NoRequest
    /\ response = NoResponse
    /\ first_pair = NoPair
    /\ last_load = NoLoad
    /\ calls = NoCalls
    /\ p_request = NoRequest
    /\ p_response = NoResponse
    /\ p_calls = NoCalls
    /\ health_response = NoHealth

ApiIdle ==
    /\ cached_model = NoModel /\ cached_training_info = NoInfo
    /\ model_file = NoModelFile /\ info_file = NoFile
    /\ request = NoRequest /\ response = NoResponse
    /\ first_pair = NoPair /\ last_load = NoLoad /\ calls = NoCalls
    /\ p_request = NoRequest /\ p_response = NoResponse /\ p_calls = NoCalls
    /\ health_response = NoHealth

\* predict() of api/index.py answers one request.
IndexPredict ==
    \E rq \in ApiRequests :
        LET loads  == rq.json \notin RaisingBodies \cup FalsyBodies
            loaded == load_model_and_info
        IN /\ request' = rq
           /\ response' \in {except(predict_body(rq, loaded, noise, p)) :
                                noise \in Noise, p \in Predictions}
           /\ cached_model' = IF loads THEN loaded.g_model ELSE cached_model
           /\ cached_training_info' = IF loads THEN loaded.g_info ELSE cached_training_info
           /\ calls' = index_calls(rq, loaded)
           /\ first_pair' =
                IF loads /\ ~first_pair.set
                         /\ loaded.model.kind # "None" /\ loaded.info.kind # "None"
                THEN [set |-> TRUE, model |-> loaded.model, info |-> loaded.info]
                ELSE first_pair
           /\ last_load' =
                IF loads
                THEN [called |-> TRUE, later |-> first_pair.set, read |-> loaded.read,
                      moved |-> \/ model_file.state # "valid"
                                \/ model_file.content # loaded.model
                                \/ info_file.state # "valid"
                                \/ info_file.content # loaded.info,
                      model |-> loaded.model, info |-> loaded.info]
                ELSE last_load
           /\ UNCHANGED <<model_file, info_file>>

\* The pickle files are replaced or removed while the service runs.
FilesChange ==
    /\ model_file' \in ModelFiles
    /\ info_file' \in InfoFiles
    /\ <<model_file', info_file'>> # <<model_file, info_file>>
    /\ UNCHANGED <<cached_model, cached_training_info, first_pair, last_load>>

\* predict() of api/predict.py answers one request.
PredictPredict ==
    \E rq \in ApiRequests :
        LET loads == rq.json \notin RaisingBodies \cup FalsyBodies
            model == IF loads THEN predict_load_model ELSE NoModel
        IN /\ p_request' = rq
           /\ p_response' \in {predict_except(predict_predict_body(rq, model, p, accepts)) :
                                  p \in Predictions, accepts \in BOOLEAN}
           /\ p_calls' = predict_calls(rq, model)
           /\ UNCHANGED serviceState

\* health() of api/predict.py answers one request.
PredictHealth ==
    /\ health_response' = predict_health(predict_load_model)
    /\ UNCHANGED serviceState

\* ServiceSpec keeps the exchange of the latest request only: an endpoint
\* that answers clears what the other endpoints recorded.
ForgetIndex == request' = NoRequest /\ response' = NoResponse /\ calls' = NoCalls

ForgetPredict ==
    p_request' = NoRequest /\ p_response' = NoResponse /\ p_calls' = NoCalls

ForgetHealth == health_response' = NoHealth

(***************************************************************************)
(* Part 5: DataValidation.validate_all_files_exist                         *)
(* (src/mathematicsScore/components/data_validation.py).                   *)
(***************************************************************************)
VARIABLES
    vpc,                \* "start", "returned" or "raised"
    dir_exists,         \* whether artifacts/data_ingestion exists
    all_files,          \* os.listdir of artifacts/data_ingestion
    required_files,     \* config.ALL_REQUIRED_FILES
    validation_status,  \* the value the call returned
    status_file         \* text of config.STATUS_FILE, None while not written

valVars == <<vpc, dir_exists, all_files, required_files, validation_status,
             status_file>>

\* Longest ALL_REQUIRED_FILES list of the configuration.
MaxRequired == 2

FileNames == {"train_data.csv", "test_data.csv", "notes.txt"}

RequiredLists == UNION {[1..n -> FileNames] : n \in 0..MaxRequired}

\* str() of a Python bool, as the f-string formats it.
str(b) == IF b THEN "True" ELSE "False"

\* The scan without the break and with the status reassigned on every
\* iteration: the last required file decides.
required_scan_LastWins(listing, required, i) ==
    IF required = <<>> THEN TRUE
    ELSE required[Len(required)] \in listing

\* The for loop with its break: True unless some required file is not in
\* the listing; the scan stops at the first missing one.
RECURSIVE required_scan(_, _, _)
required_scan(listing, required, i) ==
    IF i > Len(required) THEN TRUE
    ELSE IF required[i] \notin listing THEN FALSE
    ELSE required_scan(listing, required, i + 1)

validate_all_files_exist ==
    IF ~dir_exists
    THEN [raised |-> TRUE, status |-> FALSE, written |-> None]
    ELSE LET st == required_scan(all_files, required_files, 1)
         IN  [raised |-> FALSE, status |-> st,
              written |-> "Validation status: " \o str(st)]

ValInit ==
    /\ vpc = "start"
    /\ dir_exists \in BOOLEAN
    /\ all_files \in SUBSET FileNames
    /\ dir_exists = FALSE => all_files = {}
    /\ required_files \in RequiredLists
    /\ validation_status = FALSE
    /\ status_file \in {None, "Validation status: True"}

ValIdle ==
    /\ vpc = "idle"
    /\ dir_exists = FALSE
    /\ all_files = {}
    /\ required_files = <<>>
    /\ validation_status = FALSE
    /\ status_file = None

Validate ==
    /\ vpc = "start"
    /\ LET r == validate_all_files_exist
       IN  /\ vpc' = IF r.raised THEN "raised" ELSE "returned"
           /\ validation_status' = r.status
           /\ status_file' = IF r.raised THEN status_file ELSE r.written
    /\ UNCHANGED <<dir_exists, all_files, required_files>>


(***************************************************************************)
(* Part 6: the evaluation metrics on disk: ModelEvaluation.evaluate writes *)
(* them (components/model_evaluation.py), model_info of api/predict.py and *)
(* get_latest_metrics of monitoring/ml_metrics_server.py read them.        *)
(***************************************************************************)
VARIABLES
    evaluated,            \* an evaluation has completed successfully
    eval_files,           \* path -> content of the evaluation JSON files
    persisted,            \* the metrics the most recent evaluation wrote
    model_info_response,  \* last answer of /api/model-info
    latest_metrics        \* last result of get_latest_metrics

evalVars == <<evaluated, eval_files, persisted, model_info_response,
              latest_metrics>>

MetricKeys == {"test_r2", "test_rmse", "test_mae"}

\* A JSON object of metrics: its keys and their values (in hundredths).
Metrics(r2, rmse, mae) ==
    [keys |-> MetricKeys,
     val |-> [k \in MetricKeys |->
                 IF k = "test_r2" THEN r2
                 ELSE IF k = "test_rmse" THEN rmse ELSE mae]]

\* The empty JSON object {}.
EmptyMetrics == [keys |-> {}, val |-> [k \in MetricKeys |-> 0]]

\* A file that does not exist.
AbsentFile == [keys |-> {"<absent>"}, val |-> [k \in MetricKeys |-> 0]]

\* What an evaluation can compute for the test set.
EvaluationResults ==
    {Metrics(r2, rmse, 400) : r2 \in {50, 80}, rmse \in {500, 700}}

\* A report left by an earlier version of the pipeline.
OldReport == Metrics(30, 900, 800)

report_path == "artifacts/model_evaluation/evaluation_report.json"

metrics_json_path == "artifacts/model_evaluation/evaluation_metrics.json"

\* The list of the metrics server, in its order.
eval_metrics_paths ==
    <<"artifacts/model_evaluation/evaluation_report.json",
      "artifacts/model_evaluation/evaluation_metrics.json",
      "../artifacts/model_evaluation/evaluation_report.json",
      "../artifacts/model_evaluation/evaluation_metrics.json">>

EvalPaths == Range(eval_metrics_paths)

exists(files, path) == files[path] # AbsentFile

\* dict.get(key, 0.0)
dict_get(d, key) == IF key \in d.keys THEN d.val[key] ELSE 0

\* The for loop with its break: index of the first path that exists, 0 when
\* none does.
RECURSIVE first_existing(_, _)
first_existing(files, i) ==
    IF i > Len(eval_metrics_paths) THEN 0
    ELSE IF exists(files, eval_metrics_paths[i]) THEN i
    ELSE first_existing(files, i + 1)

NoModelInfo ==
    [answered |-> FALSE, after_eval |-> FALSE, code |-> 0,
     status |-> "none", model_metrics |-> EmptyMetrics,
     model_available |-> FALSE]

NoLatest ==
    [answered |-> FALSE, after_eval |-> FALSE, ml_model_r2_score |-> 0,
     ml_model_rmse |-> 0, ml_model_mae |-> 0]

get_latest_metrics(files) ==
    LET i == first_existing(files, 1)
        eval_data == files[eval_metrics_paths[i]]
    IN  IF i = 0
        THEN [ml_model_r2_score |-> 0, ml_model_rmse |-> 0,
              ml_model_mae |-> 0]
        ELSE [ml_model_r2_score |-> dict_get(eval_data, "test_r2"),
              ml_model_rmse |-> dict_get(eval_data, "test_rmse"),
              ml_model_mae |-> dict_get(eval_data, "test_mae")]

model_info(files, available) ==
    [code |-> 200, status |-> "success",
     model_metrics |-> IF exists(files, report_path)
                       THEN files[report_path] ELSE EmptyMetrics,
     model_available |-> available]

EvalInit ==
    /\ evaluated = FALSE
    /\ eval_files \in [EvalPaths -> {AbsentFile, OldReport}]
    /\ persisted = EmptyMetrics
    /\ model_info_response = NoModelInfo
    /\ latest_metrics = NoLatest

EvalIdle ==
    /\ evaluated = FALSE
    /\ eval_files = [p \in EvalPaths |-> AbsentFile]
    /\ persisted = EmptyMetrics
    /\ model_info_response = NoModelInfo
    /\ latest_metrics = NoLatest

\* evaluate() completes: it writes evaluation_metrics.pkl and
\* evaluation_metrics.json, and no other file.
Evaluate ==
    /\ \E metrics \in EvaluationResults :
        /\ eval_files' = [eval_files EXCEPT ![metrics_json_path] = metrics]
        /\ persisted' = metrics
    /\ evaluated' = TRUE
    /\ UNCHANGED <<model_info_response, latest_metrics>>

ModelInfo ==
    /\ \E available \in BOOLEAN :
        model_info_response' =
            [answered |-> TRUE, after_eval |-> evaluated]
                @@ model_info(eval_files, available)
    /\ UNCHANGED <<evaluated, eval_files, persisted, latest_metrics>>

GetLatestMetrics ==
    /\ latest_metrics' =
            [answered |-> TRUE, after_eval |-> evaluated]
                @@ get_latest_metrics(eval_files)
    /\ UNCHANGED <<evaluated, eval_files, persisted, model_info_response>>


(***************************************************************************)
(* Part 7: setup_logger (src/mathematicsScore/logging/__init__.py)         *)
(***************************************************************************)
VARIABLES
    root_handlers,    \* number of handlers attached to the root logger
    logger_handlers,  \* handlers of the "mathematicsScore" logger, in order
    logger_level,     \* its level
    debug_env,        \* whether the environment variable DEBUG is set
    setup_calls,      \* calls of setup_logger so far
    setup_result,     \* what the last call did
    emitted,          \* "Logger initialized successfully" records emitted
    messages,         \* logger.info calls of the pipeline so far
    delivered         \* how often the last of them reached each kind of handler

logVars == <<root_handlers, logger_handlers, logger_level, debug_env, setup_calls,
             setup_result, emitted, messages, delivered>>

\* Calls of setup_logger in one process.
MaxSetupCalls == 3

\* logger.info calls of the pipeline in one process.
MaxMessages == 2

NoDelivery == [console |-> 0, file |-> 0, root |-> 0]

\* How many handlers of one kind the logger holds.
CountKind(handlers, kind) ==
    Cardinality({i \in 1..Len(handlers) : handlers[i].kind = kind})

LogFiles == {"app.log", "logs/pipeline.log"}

console_handler == [kind |-> "StreamHandler", target |-> "sys.stdout"]

file_handler(log_file) == [kind |-> "RotatingFileHandler", target |-> log_file]

\* Logger.hasHandlers(): the logger's own handlers, then those of its
\* ancestors (the logger propagates, its only ancestor is the root logger).
hasHandlers == Len(logger_handlers) > 0 \/ root_handlers > 0

get_log_level == IF debug_env THEN "DEBUG" ELSE "INFO"

LogInit ==
    /\ root_handlers = 0
    /\ logger_handlers = <<>>
    /\ logger_level = "NOTSET"
    /\ debug_env \in BOOLEAN
    /\ setup_calls = 0
    /\ setup_result = "none"
    /\ emitted = 0
    /\ messages = 0
    /\ delivered = NoDelivery

LogIdle ==
    /\ root_handlers = 0
    /\ logger_handlers = <<>>
    /\ logger_level = "NOTSET"
    /\ debug_env = FALSE
    /\ setup_calls = 0
    /\ setup_result = "idle"
    /\ emitted = 0
    /\ messages = 0
    /\ delivered = NoDelivery

\* One call of setup_logger(log_file).  `opens` says whether the
\* RotatingFileHandler could open its file.
SetupLogger ==
    /\ setup_calls < MaxSetupCalls
    /\ setup_calls' = setup_calls + 1
    /\ \E log_file \in LogFiles, opens \in BOOLEAN :
        IF hasHandlers
        THEN /\ setup_result' = "returned_early"
             /\ UNCHANGED <<logger_handlers, logger_level, emitted>>
        ELSE /\ logger_level' = get_log_level
             /\ IF opens
                THEN /\ logger_handlers' =
                          Append(Append(logger_handlers, console_handler),
                                 file_handler(log_file))
                     /\ emitted' = emitted + 1
                     /\ setup_result' = "configured"
                ELSE /\ logger_handlers' = Append(logger_handlers, console_handler)
                     /\ emitted' = emitted
                     /\ setup_result' = "raised"
    /\ UNCHANGED <<root_handlers, debug_env, messages, delivered>>

\* logger.info(...) of a pipeline module: the record is dropped when the
\* logger's effective level is above INFO (a logger left at NOTSET takes the
\* root logger's level, WARNING by default); otherwise every handler of the
\* logger and, by propagation, of the root logger handles it.
LogInfo ==
    /\ messages < MaxMessages
    /\ messages' = messages + 1
    /\ delivered' =
         IF logger_level = "NOTSET" THEN NoDelivery
         ELSE [console |-> CountKind(logger_handlers, "StreamHandler"),
               file |-> CountKind(logger_handlers, "RotatingFileHandler"),
               root |-> root_handlers]
    /\ UNCHANGED <<root_handlers, logger_handlers, logger_level, debug_env, setup_calls,
                   setup_result, emitted>>

\* Code outside the package attaches a handler to the root logger
\* (logging.basicConfig, a test runner capturing logs).
RootHandlerAdded ==
    /\ root_handlers = 0
    /\ root_handlers' = 1
    /\ UNCHANGED <<logger_handlers, logger_level, debug_env, setup_calls, setup_result,
                   emitted, messages, delivered>>


(***************************************************************************)
(* Part 8: DataIngestion.ingest_data_from_rawdata_folder                   *)
(* (components/data_ingestion.py) inside the ingestion stage of main.py.   *)
(***************************************************************************)
VARIABLES
    ipc,              \* "idle", "loop", "returned" or "raised"
    source_exists,    \* whether the folder config.source_URL exists
    source_files,     \* the files in it
    unreadable,       \* those of them pd.read_csv fails on
    root_dir_ok,      \* whether files can be written to config.root_dir
    remaining,        \* files the loop has not reached yet
    reads,            \* files handed to pd.read_csv
    written,          \* names of the files written to config.root_dir
    processed_files,  \* the list the function builds and returns
    ing_exception     \* the exception the function raised

ingVars == <<ipc, source_exists, source_files, unreadable, root_dir_ok, remaining, reads,
             written, processed_files, ing_exception>>

\* A file name as the text before its last dot and the text from that dot on.
SourceNames ==
    {[stem |-> "train_data", ext |-> ".csv"], [stem |-> "test_data", ext |-> ".csv"],
     [stem |-> "notes", ext |-> ".txt"], [stem |-> "DATA", ext |-> ".CSV"]}

\* A test that lets every file through.
endswith_csv_Any(file) == TRUE

\* file.endswith('.csv')
endswith_csv(file) == file.ext = ".csv"

\* os.path.join(self.config.root_dir, file)
output_file_path(file) == [dir |-> "root_dir", name |-> file]

IngInit ==
    /\ ipc = "idle"
    /\ source_exists \in BOOLEAN
    /\ source_files \in SUBSET SourceNames
    /\ ~source_exists => source_files = {}
    /\ unreadable \in SUBSET {f \in source_files : f.ext = ".csv"}
    /\ root_dir_ok \in BOOLEAN
    /\ remaining = {}
    /\ reads = {}
    /\ written = {}
    /\ processed_files = <<>>
    /\ ing_exception = "none"

IngIdle ==
    /\ ipc = "unused"
    /\ source_exists = FALSE
    /\ source_files = {}
    /\ unreadable = {}
    /\ root_dir_ok = FALSE
    /\ remaining = {}
    /\ reads = {}
    /\ written = {}
    /\ processed_files = <<>>
    /\ ing_exception = "none"

InIngestionStage == pc = "in_stage" /\ StageSeq[stage] = "ingestion"

\* Lines 38-42: check_rawdata_folder_exists raises FileNotFoundError for a
\* missing folder; otherwise the folder is listed.
IngestCheck ==
    /\ InIngestionStage
    /\ ipc = "idle"
    /\ IF ~source_exists
       THEN /\ ipc' = "raised"
            /\ ing_exception' = "FileNotFoundError"
            /\ remaining' = remaining
       ELSE /\ ipc' = "loop"
            /\ ing_exception' = ing_exception
            /\ remaining' = source_files
    /\ UNCHANGED <<source_exists, source_files, unreadable, root_dir_ok, reads, written,
                   processed_files>>

\* Lines 45-74: one iteration of the loop, for the file os.listdir gives next.
IngestFile ==
    /\ InIngestionStage
    /\ ipc = "loop"
    /\ \E file \in remaining :
        /\ remaining' = remaining \ {file}
        /\ IF ~endswith_csv(file)
           THEN UNCHANGED <<ipc, reads, written, processed_files, ing_exception>>
           ELSE /\ reads' = reads \cup {file}
                /\ IF file \in unreadable
                   THEN UNCHANGED <<ipc, written, processed_files, ing_exception>>
                   ELSE IF ~root_dir_ok
                   THEN /\ ipc' = "raised"
                        /\ ing_exception' = "OSError"
                        /\ UNCHANGED <<written, processed_files>>
                   ELSE /\ written' = written \cup {output_file_path(file).name}
                        /\ processed_files' =
                             Append(processed_files,
                                    [filename |-> file, path |-> output_file_path(file)])
                        /\ UNCHANGED <<ipc, ing_exception>>
    /\ UNCHANGED <<source_exists, source_files, unreadable, root_dir_ok>>

\* Lines 76-77: the loop is over, processed_files is returned.
IngestDone ==
    /\ InIngestionStage
    /\ ipc = "loop"
    /\ remaining = {}
    /\ ipc' = "returned"
    /\ UNCHANGED <<source_exists, source_files, unreadable, root_dir_ok, remaining, reads,
                   written, processed_files, ing_exception>>

\* DataIngestionPipeline.main logs "completed successfully" and returns;
\* main.py logs "completed" and goes on to the next block.
IngestionReturns ==
    /\ InIngestionStage
    /\ ipc = "returned"
    /\ ipc' = "left"
    /\ returned' = returned \cup {"ingestion"}
    /\ log' = Append(log, <<"info", "completed", "ingestion">>)
    /\ pc' = "between"
    /\ UNCHANGED <<stage, nwritten, started, failed, raisedBy, artifacts, metrics_thread,
                   lastRead>>
    /\ UNCHANGED <<source_exists, source_files, unreadable, root_dir_ok, remaining, reads,
                   written, processed_files, ing_exception>>

\* The except clause of DataIngestionPipeline.main logs the error and
\* re-raises; the except clause of the block in main.py logs the exception
\* and re-raises, which ends the script.
IngestionRaises ==
    /\ InIngestionStage
    /\ ipc = "raised"
    /\ ipc' = "left"
    /\ failed' = failed \cup {"ingestion"}
    /\ IF Reraises("ingestion")
       THEN /\ log' = log \o << <<"error", "pipeline", "ingestion">>,
                                <<"exception", "main", "ingestion">> >>
            /\ pc' = "raised"
            /\ raisedBy' = "ingestion"
            /\ returned' = returned
       ELSE /\ log' = log \o << <<"error", "pipeline", "ingestion">>,
                                <<"info", "completed", "ingestion">> >>
            /\ pc' = "between"
            /\ raisedBy' = raisedBy
            /\ returned' = returned \cup {"ingestion"}
    /\ UNCHANGED <<stage, nwritten, started, artifacts, metrics_thread, lastRead>>
    /\ UNCHANGED <<source_exists, source_files, unreadable, root_dir_ok, remaining, reads,
                   written, processed_files, ing_exception>>


vars == <<pipeVars, missVars, transVars, encVars, apiVars, valVars, evalVars, logVars, ingVars>>

Init == PipeInit /\ MissIdle /\ TransIdle /\ EncIdle /\ ApiIdle /\ ValIdle /\ EvalIdle /\ LogIdle /\ IngIdle

Next == PipeNext /\ UNCHANGED <<missVars, transVars, encVars, apiVars, valVars, evalVars, logVars, ingVars>>

Spec == Init /\ [][Next]_vars

MissingInit == PipeIdle /\ MissInit /\ TransIdle /\ EncIdle /\ ApiIdle /\ ValIdle /\ EvalIdle /\ LogIdle /\ IngIdle

MissingNext == HandleMissing /\ UNCHANGED <<pipeVars, transVars, encVars, apiVars, valVars, evalVars, logVars, ingVars>>

MissingSpec == MissingInit /\ [][MissingNext]_vars

TransformInit == PipeIdle /\ MissIdle /\ TransInit /\ EncIdle /\ ApiIdle /\ ValIdle /\ EvalIdle /\ LogIdle /\ IngIdle

TransformNext ==
    \/ Transform /\ UNCHANGED <<pipeVars, missVars, encVars, apiVars, valVars, evalVars, logVars, ingVars>>
    \/ Train /\ UNCHANGED <<pipeVars, missVars, encVars, apiVars, valVars, evalVars, logVars, ingVars>>
    \/ Encode /\ UNCHANGED <<pipeVars, missVars, encVars, apiVars, valVars, evalVars, logVars, ingVars>>

TransformSpec == TransformInit /\ [][TransformNext]_vars

EncodingInit == PipeIdle /\ MissIdle /\ TransIdle /\ EncInit /\ ApiIdle /\ ValIdle /\ EvalIdle /\ LogIdle /\ IngIdle

EncodingNext ==
    \/ IndexPreprocess /\ UNCHANGED <<pipeVars, missVars, transVars, apiVars, valVars, evalVars, logVars, ingVars>>
    \/ PredictPreprocess /\ UNCHANGED <<pipeVars, missVars, transVars, apiVars, valVars, evalVars, logVars, ingVars>>

EncodingSpec == EncodingInit /\ [][EncodingNext]_vars

ApiSpecInit == PipeIdle /\ MissIdle /\ TransIdle /\ EncIdle /\ ApiInit /\ ValIdle /\ EvalIdle /\ LogIdle /\ IngIdle

ApiNext ==
    \/ IndexPredict /\ UNCHANGED <<predictExchange, health_response>>
                    /\ UNCHANGED <<pipeVars, missVars, transVars, encVars, valVars, evalVars, logVars, ingVars>>
    \/ FilesChange /\ UNCHANGED <<indexExchange, predictExchange, health_response>>
                   /\ UNCHANGED <<pipeVars, missVars, transVars, encVars, valVars, evalVars, logVars, ingVars>>

ApiSpec == ApiSpecInit /\ [][ApiNext]_vars

\* Both services on one disk.
ServiceInit == PipeIdle /\ MissIdle /\ TransIdle /\ EncIdle /\ ApiInit /\ ValIdle /\ EvalIdle /\ LogIdle /\ IngIdle

ServiceNext ==
    \/ IndexPredict /\ ForgetPredict /\ ForgetHealth
                    /\ UNCHANGED <<pipeVars, missVars, transVars, encVars, valVars, evalVars, logVars, ingVars>>
    \/ PredictPredict /\ ForgetIndex /\ ForgetHealth
                      /\ UNCHANGED <<pipeVars, missVars, transVars, encVars, valVars, evalVars, logVars, ingVars>>
    \/ PredictHealth /\ ForgetIndex /\ ForgetPredict
                     /\ UNCHANGED <<pipeVars, missVars, transVars, encVars, valVars, evalVars, logVars, ingVars>>

ServiceSpec == ServiceInit /\ [][ServiceNext]_vars

ValidationInit == PipeIdle /\ MissIdle /\ TransIdle /\ EncIdle /\ ApiIdle /\ ValInit /\ EvalIdle /\ LogIdle /\ IngIdle

ValidationNext == Validate /\ UNCHANGED <<pipeVars, missVars, transVars, encVars, apiVars, evalVars, logVars, ingVars>>

ValidationSpec == ValidationInit /\ [][ValidationNext]_vars

EvaluationInit == PipeIdle /\ MissIdle /\ TransIdle /\ EncIdle /\ ApiIdle /\ ValIdle /\ EvalInit /\ LogIdle /\ IngIdle

EvaluationNext ==
    \/ Evaluate /\ UNCHANGED <<pipeVars, missVars, transVars, encVars, apiVars, valVars, logVars, ingVars>>
    \/ ModelInfo /\ UNCHANGED <<pipeVars, missVars, transVars, encVars, apiVars, valVars, logVars, ingVars>>
    \/ GetLatestMetrics /\ UNCHANGED <<pipeVars, missVars, transVars, encVars, apiVars, valVars, logVars, ingVars>>

EvaluationSpec == EvaluationInit /\ [][EvaluationNext]_vars

LoggerInit == PipeIdle /\ MissIdle /\ TransIdle /\ EncIdle /\ ApiIdle /\ ValIdle /\ EvalIdle /\ LogInit /\ IngIdle

LoggerNext ==
    \/ SetupLogger /\ UNCHANGED <<pipeVars, missVars, transVars, encVars, apiVars, valVars, evalVars, ingVars>>
    \/ RootHandlerAdded /\ UNCHANGED <<pipeVars, missVars, transVars, encVars, apiVars, valVars, evalVars, ingVars>>
    \/ LogInfo /\ UNCHANGED <<pipeVars, missVars, transVars, encVars, apiVars, valVars, evalVars, ingVars>>

LoggerSpec == LoggerInit /\ [][LoggerNext]_vars

\* The run of main.py up to the start of the validation stage, with the
\* ingestion component in detail.
IngestionInit == PipeInit /\ MissIdle /\ TransIdle /\ EncIdle /\ ApiIdle /\ ValIdle /\ EvalIdle /\ LogIdle /\ IngInit

IngestionNext ==
    \/ Boot /\ UNCHANGED <<missVars, transVars, encVars, apiVars, valVars, evalVars, logVars, ingVars>>
    \/ StageStart /\ stage < 2 /\ UNCHANGED <<missVars, transVars, encVars, apiVars, valVars, evalVars, logVars, ingVars>>
    \/ IngestCheck /\ UNCHANGED <<pipeVars, missVars, transVars, encVars, apiVars, valVars, evalVars, logVars>>
    \/ IngestFile /\ UNCHANGED <<pipeVars, missVars, transVars, encVars, apiVars, valVars, evalVars, logVars>>
    \/ IngestDone /\ UNCHANGED <<pipeVars, missVars, transVars, encVars, apiVars, valVars, evalVars, logVars>>
    \/ IngestionReturns /\ UNCHANGED <<missVars, transVars, encVars, apiVars, valVars, evalVars, logVars>>
    \/ IngestionRaises /\ UNCHANGED <<missVars, transVars, encVars, apiVars, valVars, evalVars, logVars>>

IngestionSpec == IngestionInit /\ [][IngestionNext]_vars

(***************************************************************************)
(* Claims about the run of main.py                                         *)
(***************************************************************************)

ClaimedOrder ==
    <<"ingestion", "validation", "transformation", "training", "evaluation">>

\* C1: in one run of main.py the stages start in the order ingestion,
\* validation, transformation, training, evaluation, and a stage has started
\* only if the main() of the stage before it has already returned.
C1_StagesStartInOrder ==
    /\ Len(started) <= Len(ClaimedOrder)
    /\ \A k \in 1..Len(started) :
          /\ started[k] = ClaimedOrder[k]
          /\ k > 1 => ClaimedOrder[k - 1] \in returned

C1_Witness ==
    /\ pc = "in_stage"
    /\ started = ClaimedOrder
    /\ returned = {"ingestion", "validation", "transformation", "training"}

C3_FailureStopsRun ==
    \A s \in failed :
        /\ pc = "raised"
        /\ raisedBy = s
        /\ started[Len(started)] = s
        /\ Cardinality({k \in 1..Len(started) : started[k] = s}) = 1
        /\ \E k \in 1..Len(log) : log[k] = <<"exception", "main", s>>

(***************************************************************************)
(* Claims about the feature encoding                                       *)
(***************************************************************************)

\* The raw field and category a recognised indicator column stands for.
ClaimedIndicators ==
    {<<"gender", "male">>, <<"lunch", "standard">>,
     <<"parental_level_of_education", "bachelor's degree">>,
     <<"parental_level_of_education", "high school">>,
     <<"parental_level_of_education", "master's degree">>,
     <<"parental_level_of_education", "some college">>,
     <<"parental_level_of_education", "some high school">>,
     <<"race_ethnicity", "group B">>, <<"race_ethnicity", "group C">>,
     <<"race_ethnicity", "group D">>, <<"race_ethnicity", "group E">>,
     <<"test_preparation_course", "none">>}

\* The value the claim derives for feature column f from the object o.
DerivedValue(f, o) ==
    IF \E fv \in ClaimedIndicators : f = fv[1] \o "_" \o fv[2]
    THEN LET fv == CHOOSE fv \in ClaimedIndicators : f = fv[1] \o "_" \o fv[2]
         IN IF fv[1] \in DOMAIN o /\ o[fv[1]] = fv[2] THEN 1 ELSE 0
    ELSE IF f \in {"reading_score", "writing_score"}
    THEN IF f \in DOMAIN o THEN o[f].v ELSE 0
    ELSE 0

FollowsFeatureOrder(result, data, info) ==
    /\ result.ok
    /\ Len(result.row) = Len(info.feature_columns)
    /\ \A i \in 1..Len(result.row) :
          result.row[i] = DerivedValue(info.feature_columns[i], data.obj)

\* C4 as stated: for every request body and every training_info (that lists
\* feature_columns) preprocess_input of api/index.py returns one row that
\* follows the feature order.
C4_AlwaysOneRow ==
    (epc # "input" /\ e_info.kind = "dict" /\ e_info.has_feature_columns)
        => e_index.ok /\ Len(e_index.row) = Len(e_info.feature_columns)

\* C4 amended: for every training_info that lists feature_columns and every
\* request body that is a JSON object whose reading_score and writing_score
\* are absent or accepted by float(), preprocess_input of api/index.py
\* returns exactly one row, as long as feature_columns, whose i-th entry is
\* the value derived for the i-th feature column; an unrecognised column
\* contributes 0.
C4_OneRowForConvertibleInput ==
    (/\ epc # "input"
     /\ e_info.kind = "dict" /\ e_info.has_feature_columns
     /\ e_data.kind = "object"
     /\ \A k \in {"reading_score", "writing_score"} \cap DOMAIN e_data.obj :
           e_data.obj[k].kind \in {"num", "numstr"})
        => FollowsFeatureOrder(e_index, e_data, e_info)

C4_Witness ==
    /\ epc = "indexed"
    /\ e_index.ok
    /\ e_index.row = <<1, 0, 60, 1>>
    /\ e_info.feature_columns[2] = "parental_level_of_education_associate's degree"

\* C5: the vector api/index.py builds from the raw fields of a training record
\* equals, column by column, the feature row the transformation stage produced
\* for that record.
C5_SameEncodingAsTraining ==
    tpc = "encoded" =>
        /\ enc_out.ok
        /\ Len(enc_out.row) = Len(training_info.feature_columns)
        /\ \A k \in 1..Len(enc_out.row) :
              enc_out.row[k] = train_data.rows[enc_row][training_info.feature_columns[k]]

\* C6: for a body carrying all seven raw fields (numeric scores), api/index.py
\* with the 14 standard feature columns and api/predict.py build the same
\* vector: the same values at the same positions.
C6_SameVectorInBothServices ==
    (/\ epc = "encoded"
     /\ e_info = Dict(StandardFeatures)
     /\ e_data.kind = "object"
     /\ DOMAIN e_data.obj = RawFields
     /\ \A k \in ScoreFields : e_data.obj[k].kind = "num")
        => /\ e_index.ok
           /\ Len(e_predict) = Len(e_index.row)
           /\ \A i \in 1..Len(e_predict) : e_predict[i] = Num(e_index.row[i])

(***************************************************************************)
(* Claims about the predict endpoint of api/index.py                       *)
(***************************************************************************)

\* C7: every response of predict is JSON that carries 'status'; a 'success'
\* response has HTTP 200 and the keys prediction, input_data, timestamp and
\* model_used; an 'error' response has the key error and HTTP 400 or 500; no
\* request makes the handler propagate an exception.
C7_ResponseShape ==
    response # NoResponse =>
        /\ ~response.propagated
        /\ "status" \in response.keys
        /\ response.status \in {"success", "error"}
        /\ response.status = "success" =>
              /\ response.code = 200
              /\ {"prediction", "input_data", "timestamp", "model_used"} \subseteq response.keys
        /\ response.status = "error" =>
              /\ "error" \in response.keys
              /\ response.code \in {400, 500}

C7_Witness ==
    /\ request.json = "array"
    /\ cached_training_info.kind = "dict"
    /\ cached_model.kind = "None"
    /\ response.code = 500
    /\ response.status = "error"

(***************************************************************************)
(* Claims about the transformation component                               *)
(***************************************************************************)

\* The two tables as they are before transform aligns their columns.
EncodedAlone(rows) == create_dummy_variables(handle_missing_values(read_csv(rows)))

IsSortedNames(q) == \A i \in 1..Len(q) - 1 : Rank(q[i]) < Rank(q[i + 1])

\* C8: after transform the train table and the test table have the same
\* columns in the same sorted order, and a column one side lacked holds 0 in
\* every row of that side.
C8_SameSortedColumns ==
    tpc # "ingested" /\ tpc # "idle" =>
        /\ train_data.cols = test_data.cols
        /\ IsSortedNames(train_data.cols)
        /\ Range(train_data.cols) =
              Range(EncodedAlone(train_csv).cols) \cup Range(EncodedAlone(test_csv).cols)
        /\ \A c \in Range(train_data.cols) \ Range(EncodedAlone(train_csv).cols) :
              \A i \in 1..Len(train_data.rows) : train_data.rows[i][c] = 0
        /\ \A c \in Range(test_data.cols) \ Range(EncodedAlone(test_csv).cols) :
              \A i \in 1..Len(test_data.rows) : test_data.rows[i][c] = 0

C8_Witness ==
    /\ tpc = "transformed"
    /\ "race_ethnicity_group C" \notin Range(EncodedAlone(test_csv).cols)
    /\ "race_ethnicity_group B" \notin Range(EncodedAlone(train_csv).cols)
    /\ test_data.cols = <<"math_score", "race_ethnicity_group B",
                          "race_ethnicity_group C", "reading_score">>
    /\ \E i \in 1..Len(train_data.rows) : train_data.rows[i]["race_ethnicity_group C"] = 1

\* C9: a test row and a train row with the same category value get the same
\* dummy-column values from transform, also when train and test hold different
\* sets of categories.
C9_SameDummiesForSameCategory ==
    tpc # "ingested" /\ tpc # "idle" =>
        \A i \in 1..Len(train_csv), j \in 1..Len(test_csv) :
            (/\ train_csv[i].race_ethnicity # None
             /\ train_csv[i].race_ethnicity = test_csv[j].race_ethnicity)
                => \A c \in Range(train_data.cols) \ Range(CsvColumns) :
                      train_data.rows[i][c] = test_data.rows[j][c]

\* Cells of column c of a DataFrame that are missing.
IsMissing(df, c, i) == df.rows[i][c] = (IF df.dtype[c] = "object" THEN None ELSE NaN)

NoMissingCell(df) == \A c \in Range(df.cols) : \A i \in 1..Len(df.rows) : ~IsMissing(df, c, i)

\* m is a median of the non-missing cells of column c: at most half of them
\* lie below it and at most half above it.
IsMedianOf(m, df, c) ==
    LET vals == Present(df, c)
    IN /\ 2 * Cardinality({k \in 1..Len(vals) : vals[k] < m}) <= Len(vals)
       /\ 2 * Cardinality({k \in 1..Len(vals) : vals[k] > m}) <= Len(vals)

\* m is a mode of the non-missing cells of column c: no value occurs more often.
IsModeOf(m, df, c) ==
    LET vals == Present(df, c)
        count(v) == Cardinality({k \in 1..Len(vals) : vals[k] = v})
    IN m \in Range(vals) /\ \A w \in Range(vals) : count(w) <= count(m)

FilledAsClaimed(c) ==
    \A i \in 1..Len(hm_in.rows) :
        IF IsMissing(hm_in, c, i)
        THEN /\ ~IsMissing(hm_out, c, i)
             /\ IF hm_in.dtype[c] = "object"
                THEN IsModeOf(hm_out.rows[i][c], hm_in, c)
                ELSE IsMedianOf(hm_out.rows[i][c], hm_in, c)
        ELSE hm_out.rows[i][c] = hm_in.rows[i][c]

\* C10 as stated: every missing cell is filled with the median or the mode of
\* its column, the other cells are unchanged, and the returned table has no
\* missing cell.
C10_NoCellMissingAfterwards ==
    hm_pc = "filled" =>
        /\ \A c \in Range(hm_in.cols) : FilledAsClaimed(c)
        /\ NoMissingCell(hm_out)

\* C10 amended: in every column that has at least one non-missing cell,
\* handle_missing_values fills every missing cell with the column's median
\* (numerical) or mode (categorical) and leaves the other cells unchanged, so
\* that no cell of such a column is missing; a column whose cells are all
\* missing is returned unchanged.
C10_FillsColumnsThatHaveAValue ==
    hm_pc = "filled" =>
        /\ hm_out.cols = hm_in.cols
        /\ Len(hm_out.rows) = Len(hm_in.rows)
        /\ \A c \in Range(hm_in.cols) :
              IF Present(hm_in, c) # <<>>
              THEN FilledAsClaimed(c)
              ELSE \A i \in 1..Len(hm_in.rows) : hm_out.rows[i][c] = hm_in.rows[i][c]

C10_Witness ==
    /\ hm_pc = "filled"
    /\ Len(hm_in.rows) = 4
    /\ hm_in.rows[1].reading_score = NaN /\ hm_out.rows[1].reading_score = 60
    /\ hm_in.rows[2].reading_score = 40
    /\ hm_in.rows[1].race_ethnicity = None /\ hm_out.rows[1].race_ethnicity = "group B"
    /\ hm_in.rows[4].race_ethnicity = "group A"

(***************************************************************************)
(* Claims about validate_all_files_exist                                   *)
(***************************************************************************)

EveryRequiredFileListed ==
    \A i \in 1..Len(required_files) : required_files[i] \in all_files

\* C11: a call of validate_all_files_exist that returns, returns True
\* exactly when every name of ALL_REQUIRED_FILES is in the listing of
\* artifacts/data_ingestion and False otherwise, and the status file then
\* reads "Validation status: " followed by the value returned.
C11_StatusIsAllRequiredListed ==
    vpc = "returned" =>
        /\ validation_status = EveryRequiredFileListed
        /\ status_file = (IF validation_status THEN "Validation status: True"
                          ELSE "Validation status: False")

\* A call returned False for a list whose first name is missing and whose
\* last name is listed.
C11_Witness ==
    /\ vpc = "returned"
    /\ Len(required_files) = 2
    /\ required_files[1] \notin all_files
    /\ required_files[2] \in all_files
    /\ validation_status = FALSE
    /\ status_file = "Validation status: False"

(***************************************************************************)
(* Claims about the evaluation metrics and their readers                   *)
(***************************************************************************)

\* C12: after the evaluation stage has completed successfully,
\* /api/model-info of api/predict.py returns in model_metrics the metrics
\* that stage persisted, test_r2, test_rmse and test_mae among them.
C12_ModelInfoReturnsPersisted ==
    (model_info_response.answered /\ model_info_response.after_eval) =>
        /\ MetricKeys \subseteq model_info_response.model_metrics.keys
        /\ \A k \in MetricKeys :
               model_info_response.model_metrics.val[k] = persisted.val[k]

\* C13: after an evaluation has completed successfully, get_latest_metrics
\* reports as ml_model_r2_score, ml_model_rmse and ml_model_mae the test_r2,
\* test_rmse and test_mae the most recent evaluation wrote, whatever other
\* evaluation files exist.
C13_LatestMetricsAreThePersisted ==
    (latest_metrics.answered /\ latest_metrics.after_eval) =>
        /\ latest_metrics.ml_model_r2_score = persisted.val["test_r2"]
        /\ latest_metrics.ml_model_rmse = persisted.val["test_rmse"]
        /\ latest_metrics.ml_model_mae = persisted.val["test_mae"]

(***************************************************************************)
(* Claims about the prediction services                                    *)
(***************************************************************************)

\* C14: once a call of load_model_and_info has returned a non-None
\* (model, training_info) pair, every later call in the same process
\* returns that same pair without reading any file, whatever has happened
\* to the files on disk since.
C14_CachedPairReturnedWithoutReading ==
    (last_load.called /\ last_load.later) =>
        /\ last_load.model = first_pair.model
        /\ last_load.info = first_pair.info
        /\ ~last_load.read

\* A later call returned the first pair although the model file had been
\* removed and the training info replaced.
C14_Witness ==
    /\ first_pair.set
    /\ last_load.called /\ last_load.later /\ last_load.moved
    /\ model_file.state = "absent"
    /\ info_file.state = "valid" /\ info_file.content # first_pair.info
    /\ last_load.model = first_pair.model
    /\ last_load.info = first_pair.info
    /\ ~last_load.read

(***************************************************************************)
(* Claims about setup_logger                                               *)
(***************************************************************************)

\* C15: after any number of calls of setup_logger the "mathematicsScore"
\* logger holds exactly one console handler and one rotating file handler.
C15_OneConsoleOneFileHandler ==
    setup_calls > 0 =>
        /\ CountKind(logger_handlers, "StreamHandler") = 1
        /\ CountKind(logger_handlers, "RotatingFileHandler") = 1
        /\ Len(logger_handlers) = 2

\* The bodies the claims call missing or empty.
MissingOrEmpty == {"missing", "missing_legacy", "null", "empty_object", "empty_array"}

\* C16: in api/index.py and in api/predict.py a predict request whose JSON
\* body is missing or empty (the empty object {} included) is answered with
\* HTTP 400 and the error "No input data provided", and neither is the model
\* loaded nor model.predict called.
C16_EmptyBodyAnswered400 ==
    /\ request.json \in MissingOrEmpty =>
          /\ response.code = 400
          /\ response.error = "No input data provided"
          /\ ~calls.loaded /\ ~calls.predicted
    /\ p_request.json \in MissingOrEmpty =>
          /\ p_response.code = 400
          /\ p_response.error = "No input data provided"
          /\ ~p_calls.loaded /\ ~p_calls.predicted

\* reading_score and writing_score of the request are numbers or absent.
ScoresNumericOrAbsent ==
    \A k \in ScoreFields :
        k \in DOMAIN request.data.obj => request.data.obj[k].kind = "num"

FallbackAnswer ==
    /\ response.code = 200
    /\ response.status = "success"
    /\ response.model_used = "fallback_intelligent_mock"
    /\ response.prediction >= 0 /\ response.prediction <= 100

\* The service could not load the pair for the last request: the call it
\* made returned None, or, when it made none, a call would return None.
CouldNotLoad ==
    IF calls.loaded THEN last_load.model.kind = "None" \/ last_load.info.kind = "None"
    ELSE load_model_and_info.model.kind = "None"

\* C17 as stated: whenever api/index.py cannot load the model or the
\* training info and reading_score and writing_score of the request are
\* numeric or absent, predict answers 200, "success",
\* "fallback_intelligent_mock" and a prediction within [0, 100].
C17_FallbackForEveryRequest ==
    (request.json # "none" /\ CouldNotLoad /\ ScoresNumericOrAbsent) => FallbackAnswer

\* C17, amended: the same for a request whose body is a non-empty JSON
\* object, for every noise value.
C17_FallbackForNonEmptyObject ==
    (request.json = "object" /\ CouldNotLoad /\ ScoresNumericOrAbsent) => FallbackAnswer

\* The fallback answered a request whose base score plus noise lies above
\* 100 with the prediction 100.
C17_Witness ==
    /\ request.json = "object"
    /\ CouldNotLoad
    /\ DOMAIN request.data.obj
          = {"reading_score", "writing_score", "test_preparation_course"}
    /\ request.data.obj["reading_score"] = Num(100)
    /\ response.model_used = "fallback_intelligent_mock"
    /\ response.prediction = 100

ModelNotAvailable ==
    /\ p_response.code = 500
    /\ p_response.error = "Model not available"
    /\ p_response.status = "error"
    /\ ~p_calls.predicted

HealthFollowsModel ==
    health_response.answered =>
        /\ health_response.status = "healthy" <=> model_file.state = "valid"
        /\ model_file.state # "valid" =>
              /\ health_response.status = "unhealthy"
              /\ health_response.model_loaded = FALSE

\* C18 as stated: in api/predict.py, when the model file is absent or
\* cannot be unpickled, /api/predict answers 500 with error "Model not
\* available" and status "error" without computing a prediction, and
\* /api/health reports "unhealthy" with model_loaded false; /api/health
\* reports "healthy" exactly when the model loads.
C18_ModelNotAvailableForEveryRequest ==
    /\ (p_request.json # "none" /\ model_file.state # "valid") => ModelNotAvailable
    /\ HealthFollowsModel

\* C18, amended: the same for a predict request that carries a non-empty
\* JSON body.
C18_ModelNotAvailableForNonEmptyBody ==
    /\ (p_request.json \in {"object", "array"} /\ model_file.state # "valid")
          => ModelNotAvailable
    /\ HealthFollowsModel

\* A request with a JSON object was answered "Model not available" while
\* the model file could not be unpickled.
C18_Witness ==
    /\ p_request.json = "object"
    /\ model_file.state = "corrupt"
    /\ p_response.code = 500
    /\ p_response.error = "Model not available"

(***************************************************************************)
(* Claims about the ingestion stage                                        *)
(***************************************************************************)

\* The files of the source folder whose name ends in ".csv" and that could
\* be read.
ReadableCsvFiles == {f \in source_files : f.ext = ".csv" /\ f \notin unreadable}

C20_MissingFolderEndsTheRun ==
    ~source_exists =>
        /\ reads = {} /\ written = {} /\ processed_files = <<>>
        /\ ipc \notin {"loop", "returned"}
        /\ ipc \in {"raised", "left"} => ing_exception = "FileNotFoundError"
        /\ ipc = "left" => pc = "raised" /\ raisedBy = "ingestion"
        /\ "validation" \notin Range(started)
        /\ "ingestion" \notin returned

\* The run ended with the FileNotFoundError of the ingestion stage.
C20_Witness ==
    /\ ~source_exists
    /\ ipc = "left"
    /\ ing_exception = "FileNotFoundError"
    /\ pc = "raised" /\ raisedBy = "ingestion"
    /\ started = <<"ingestion">>

====
